---- MODULE Spec2Model ----
(***************************************************************************)
(* Generative-Poster-App: the two poster renderers, render_poster          *)
(* (app2.py) and draw_poster (app.py), as state machines over the two      *)
(* process-wide random generators they draw from (Python's `random` and    *)
(* numpy's `np.random`).                                                   *)
(*                                                                         *)
(* Numbers.  Floats are fixed point in thousandths (One = 1.0); a colour   *)
(* given as a hex string is its three bytes (0..255).  A generator is a    *)
(* state in 0..RandStates-1; one draw moves it to Rand(state) and yields   *)
(* the new state u, read as the float u / RandStates in [0,1).             *)
(*                                                                         *)
(* Outlines.  An outline is kept as the data that determines it: shape     *)
(* kind, centre, radius, polygon side count, per-point radii and rotation  *)
(* angle (rotate_coords turns every point about the centre by that angle). *)
(* In app.py the centre is (cos(angle)*dist, sin(angle)*dist); it is kept  *)
(* in polar form <<angle draw, dist>>.                                     *)
(***************************************************************************)
EXTENDS Integers, Sequences, FiniteSets, TLC

\* ---------------------------------------------------------------- bounds
RandStates == 16
MaxSeed == 2
MaxEntropy == 1
MaxLayers == 2
MaxSmooth == 2
Points == 2

\* ------------------------------------------------------ program constants
One == 1000
None == -1
PaletteSize == 40
Byte == 255

Abs(x) == IF x < 0 THEN -x ELSE x
Clip(x) == IF x < 0 THEN 0 ELSE IF x > One THEN One ELSE x
Max(a, b) == IF a > b THEN a ELSE b

\* ------------------------------------------------------------ generators
\* One draw: the generator's next state, which is also the value drawn.
Rand(g) == (13 * g + 5) % RandStates

RECURSIVE DrawSeq(_, _)
\* The values of k successive draws from g.
DrawSeq(g, k) ==
  IF k <= 0 THEN <<>>
  ELSE IF k = 1 THEN <<Rand(g)>>
  ELSE LET a == DrawSeq(g, k \div 2)
       IN a \o DrawSeq(a[Len(a)], k - k \div 2)

\* The generator state after k draws from g.
RandN(g, k) == IF k <= 0 THEN g ELSE DrawSeq(g, k)[k]

\* random.seed(s) / np.random.seed(s) with an integer s.
PySeed(s) == s % RandStates
NpSeed(s) == (3 * s + 1) % RandStates

\* Seeding without a seed takes the state from OS entropy.
Entropy == 0..MaxEntropy

\* random.random() / np.random.rand() in thousandths from a drawn value u.
Unit(u) == (One * u) \div RandStates
\* random.uniform(lo, hi) = lo + (hi - lo) * random().
Uniform(lo, hi, u) == lo + ((hi - lo) * u) \div RandStates
\* random.randint(lo, hi), both ends included.
RandInt(lo, hi, u) == lo + ((hi - lo + 1) * u) \div RandStates
\* random.choice(seq).
Choice(seq, u) == seq[1 + (Len(seq) * u) \div RandStates]

\* --------------------------------------------------------------- colours
\* A colour value as the caller passes it: a colour name or a hex string
\* (both Python str), or an RGB triple of floats.
NameColor(n) == [kind |-> "name", name |-> n, rgb |-> <<>>]
HexColor(r, g, b) == [kind |-> "hex", name |-> "", rgb |-> <<r, g, b>>]
RgbColor(r, g, b) == [kind |-> "rgb", name |-> "", rgb |-> <<r, g, b>>]

IsStr(c) == c.kind \in {"name", "hex"}
\* str.lower() on the colour names in use.
Lower(n) == IF n \in {"Black", "BLACK"} THEN "black" ELSE n

\* app2.py luminance, on byte channels: 1000 * 255 * (0.299r+0.587g+0.114b).
Luminance2(rgb) == 299 * rgb[1] + 587 * rgb[2] + 114 * rgb[3]
\* app.py luminance, on thousandth channels: 10^7 * (0.2126r+0.7152g+0.0722b).
Luminance1(rgb) == 2126 * rgb[1] + 7152 * rgb[2] + 722 * rgb[3]

\* int(c.lstrip("#")[i:i+2], 16) for i in (0,2,4): defined on hex strings,
\* ValueError on a colour name, AttributeError on a triple.
ParseHex(c) ==
  IF c.kind = "hex" THEN [ok |-> TRUE, rgb |-> c.rgb, err |-> ""]
  ELSE [ok |-> FALSE, rgb |-> <<0, 0, 0>>,
        err |-> IF c.kind = "name" THEN "ValueError" ELSE "AttributeError"]

\* ------------------------------------------------- app2.py random_palette
EarthTones == << <<420, 260, 150>>, <<550, 470, 370>>, <<620, 740, 550>>,
                <<840, 780, 580>>, <<400, 550, 300>> >>
OceanTones == << <<0, 300, 500>>, <<100, 600, 800>>, <<200, 800, 900>>,
                <<0, 500, 400>>, <<400, 900, 1000>> >>
SunsetTones == << <<1000, 500, 0>>, <<1000, 200, 300>>, <<800, 300, 600>>,
                 <<600, 200, 800>>, <<900, 700, 300>> >>
CyberColors == << <<1000, 0, 800>>, <<0, 1000, 1000>>, <<200, 200, 1000>>,
                 <<1000, 800, 100>>, <<100, 0, 100>> >>

Styles == {"pastel", "neon", "monochrome", "earth", "ocean", "sunset",
           "cyberpunk", "random"}

\* Draws random_palette(style, k) consumes from `random`.
PaletteDraws(style, k) ==
  CASE style \in {"earth", "ocean", "sunset", "cyberpunk"} -> k
    [] style = "monochrome" -> k + 1
    [] OTHER -> 3 * k

\* Entry j (1..k) of random_palette(style, k), from the values ds it draws.
MonoEntry(base, u) == base + (100 * Unit(u)) \div One

PaletteEntry(style, ds, j) ==
  LET d(m) == ds[m]
  IN CASE style = "pastel" ->
            << 600 + (400 * Unit(d(3*j-2))) \div One,
               600 + (400 * Unit(d(3*j-1))) \div One,
               600 + (400 * Unit(d(3*j))) \div One >>
       [] style = "neon" ->
            << Uniform(500, One, d(3*j-2)), Uniform(0, One, d(3*j-1)),
               Uniform(500, One, d(3*j)) >>
       [] style = "monochrome" ->
            LET v == MonoEntry(Unit(d(1)), d(j+1)) IN <<v, v, v>>
       [] style = "earth" -> Choice(EarthTones, d(j))
       [] style = "ocean" -> Choice(OceanTones, d(j))
       [] style = "sunset" -> Choice(SunsetTones, d(j))
       [] style = "cyberpunk" -> Choice(CyberColors, d(j))
       [] OTHER ->
            << Unit(d(3*j-2)), Unit(d(3*j-1)), Unit(d(3*j)) >>

RandomPalette2(style, k, g) ==
  LET ds == DrawSeq(g, PaletteDraws(style, k))
  IN [j \in 1..k |-> PaletteEntry(style, ds, j)]

\* --------------------------------------------------- app.py random_palette
Swap(seq, a, b) == [seq EXCEPT ![a] = seq[b], ![b] = seq[a]]

RECURSIVE Shuffle(_, _, _)
\* np.random.shuffle: for each position p from the last down to the second,
\* one draw picks j <= p and the two entries are swapped.
Shuffle(seq, p, g) ==
  IF p < 2 THEN seq
  ELSE LET u == Rand(g)
       IN Shuffle(Swap(seq, p, 1 + (p * u) \div RandStates), p - 1, u)

ShuffleDraws(n) == Max(0, n - 1)

\* HSL -> RGB of hue k/n with saturation s and lightness l, clipped.
HslColor(k, n, s, l) ==
  LET c == ((One - Abs(2 * l - One)) * s) \div One
      h6 == (6 * One * k) \div n
      x == (c * (One - Abs((h6 % (2 * One)) - One))) \div One
      m == l - c \div 2
      rgb == IF 6 * k < n THEN <<c, x, 0>>
             ELSE IF 6 * k < 2 * n THEN <<x, c, 0>>
             ELSE IF 6 * k < 3 * n THEN <<0, c, x>>
             ELSE IF 6 * k < 4 * n THEN <<0, x, c>>
             ELSE IF 6 * k < 5 * n THEN <<x, 0, c>>
             ELSE <<c, 0, x>>
  IN << Clip(rgb[1] + m), Clip(rgb[2] + m), Clip(rgb[3] + m) >>

PaletteDraws1(n) == ShuffleDraws(n) + 2 * n

\* random_palette(n) of app.py drawn from np.random state g (after the
\* optional reseed): hues 0/n..(n-1)/n shuffled, two draws per hue.
RandomPalette1(n, g) ==
  LET hues == Shuffle([k \in 1..n |-> k - 1], n, g)
      g1 == RandN(g, ShuffleDraws(n))
  IN [j \in 1..n |->
        HslColor(hues[j], n, Uniform(300, 900, RandN(g1, 2 * j - 1)),
                 Uniform(300, 700, RandN(g1, 2 * j)))]

\* ------------------------------------------------------ shape generators
\* cos and sin of the light angle, in thousandths.
CosMilli(deg) == CASE deg = 0 -> 1000 [] deg = 45 -> 707 [] deg = 90 -> 0
SinMilli(deg) == CASE deg = 0 -> 0 [] deg = 45 -> 707 [] deg = 90 -> 1000

\* blob(): radii = r * (1 + wobble * (np.random.rand(points) - 0.5)).
BlobRadii(r, wobble, g) ==
  [j \in 1..Points |->
     (r * (One + (wobble * (Unit(RandN(g, j)) - 500)) \div One)) \div One]

\* shape(center, r, wobble, shape_type) of app2.py from the generator states
\* py (`random`) and np (`np.random`): the outline's data, the states after,
\* and the number of draws consumed.
Shape(py, np, r, wobble, kind) ==
  CASE kind = "circle" ->
         [py |-> py, np |-> np, nd |-> 0, sides |-> 0, radii |-> <<>>]
    [] kind = "polygon" ->
         [py |-> Rand(py), np |-> np, nd |-> 1,
          sides |-> RandInt(3, 8, Rand(py)), radii |-> <<>>]
    [] OTHER ->
         [py |-> py, np |-> RandN(np, Points), nd |-> Points, sides |-> 0,
          radii |-> BlobRadii(r, wobble, np)]

\* generate_blob(..., smoothness, seed) of app.py: reseeds np.random, then
\* draws `smoothness` normal samples that the outline interpolates.
BlobNoise(seed, sm, wob) ==
  [j \in 1..sm |-> (wob * (2 * Unit(RandN(NpSeed(seed), j)) - One)) \div One]

\* --------------------------------------------------------------- drawing
Op(op, layer, kind, center, r, sides, radii, rot, color, alpha, factor) ==
  [op |-> op, layer |-> layer, kind |-> kind, center |-> center, r |-> r,
   sides |-> sides, radii |-> radii, rot |-> rot, color |-> color,
   alpha |-> alpha, factor |-> factor]

TextOp(which, x, y, size, color, alpha) ==
  Op("text", None, which, <<x, y>>, size, 0, <<>>, 0, color, alpha, 0)

\* brightness_factor of layer i of n (app2.py).
BrightnessFactor(bs, i, n) == 750 + (bs * i) \div Max(1, n)

\* np.clip(base_color * brightness_factor, 0, 1).
Shade(base, f) ==
  << Clip((base[1] * f) \div One), Clip((base[2] * f) \div One),
     Clip((base[3] * f) \div One) >>

\* The lit shape filled before its shadow.
LayerOpsLitFirst(shadow, lit) == <<lit, shadow>>

\* The two fills of one layer, in the order plt.fill is called.
LayerOps(shadow, lit) == <<shadow, lit>>

\* A loop that makes one pass too many.
MoreLayersInclusive(i, n) == i <= n

\* The loop test of `for i in range(n_layers)`.
MoreLayers(i, n) == i < n

\* The loop of app.py runs over the palette itself: enumerate(colors).
HasColor(i, colors) == i < Len(colors)

\* ----------------------------------------------------- parameter bundles
Seeds == {None} \cup (1..MaxSeed)
Shapes == {"blob", "circle", "polygon"}
Smoothness == 1..MaxSmooth

White == HexColor(255, 255, 255)
Black == HexColor(0, 0, 0)

\* render_poster(style, shape_type, n_layers, wobble, background,
\* title_color, seed, shadow_offset, brightness_strength, alpha_min,
\* alpha_max, light_angle, rotation_range, width, height).
Bundle2(seed, style, shape, n, bg, title, alpha, bs, size) ==
  [prog |-> "app2", seed |-> seed, style |-> style, shape |-> shape,
   n |-> n, wobble |-> 400, bg |-> bg, title |-> title, so |-> 20,
   bs |-> bs, amin |-> alpha[1], amax |-> alpha[2], light |-> 45,
   rot |-> 300, width |-> size[1], height |-> size[2],
   sm |-> 1, radius |-> One, spread |-> One]

\* draw_poster(n_blobs, radius, wobble, smoothness, spread, seed, bg_color).
Bundle1(seed, n, bg) ==
  [prog |-> "app", seed |-> seed, style |-> "random", shape |-> "blob",
   n |-> n, wobble |-> 60, bg |-> bg, title |-> Black, so |-> 0,
   bs |-> 0, amin |-> 700, amax |-> 700, light |-> 0,
   rot |-> 0, width |-> 7, height |-> 10,
   sm |-> 1, radius |-> 4500, spread |-> 24800]

\* The controls' values: each group of controls of app2.py takes every value
\* below while the other groups stay at the sidebar's defaults (167-186).
Backgrounds2 == {White, Black, HexColor(128, 128, 128), NameColor("black")}
TitleColors == {Black, White, NameColor("auto")}
AlphaRanges == {<<600, 900>>, <<900, 100>>}
Strengths == {300, 1000}
Sizes == {<<1200, 1700>>, <<0, 1700>>, <<1200, 0>>}

Bundles2 ==
  {Bundle2(seed, style, shape, n, White, Black, <<600, 900>>, 300,
           <<1200, 1700>>) :
     seed \in Seeds, style \in Styles, shape \in Shapes, n \in 0..MaxLayers}
  \cup
  {Bundle2(seed, "pastel", "blob", n, White, Black, <<600, 900>>, bs,
           <<1200, 1700>>) :
     seed \in Seeds, n \in 0..MaxLayers, bs \in Strengths}
  \cup
  {Bundle2(seed, "pastel", "blob", n, bg, title, <<600, 900>>, 300,
           <<1200, 1700>>) :
     seed \in Seeds, n \in 0..MaxLayers, bg \in Backgrounds2,
     title \in TitleColors}
  \cup
  {Bundle2(seed, "pastel", "blob", n, White, Black, alpha, 300, size) :
     seed \in Seeds, n \in 0..MaxLayers, alpha \in AlphaRanges,
     size \in Sizes}

Backgrounds1 ==
  {Black, White, HexColor(0, 0, 128), NameColor("black"), NameColor("Black"),
   NameColor("white"), NameColor("navy"), RgbColor(0, 0, 0),
   RgbColor(One, One, One)}

Bundles1 ==
  {Bundle1(seed, n, Black) : seed \in Seeds, n \in 0..MaxLayers}
  \cup {Bundle1(seed, 1, bg) : seed \in Seeds, bg \in Backgrounds1}

Bundles == Bundles1 \cup Bundles2

\* ----------------------------------------------------- steps of a render
\* A render's machine state: the two generators it draws from, its position
\* pc, the exception that ended it, the layer index, its palette, the draw
\* operations issued on its canvas and the number of random draws consumed.
Machine(py, np, pc, err, i, palette, ops, nd) ==
  [py |-> py, np |-> np, pc |-> pc, err |-> err, i |-> i,
   palette |-> palette, ops |-> ops, nd |-> nd]

Raise(m, err) == [m EXCEPT !.pc = "error", !.err = err]

\* What the environment decides for a step: the OS entropy a seedless seeding
\* of `random` and of np.random reads, and whether matplotlib rejects a
\* figure of size zero at this step (app2.py has no check of its own, and
\* matplotlib may raise when the figure is created, when it is saved, or not
\* at all).
Env == [py : Entropy, np : Entropy, reject : BOOLEAN]

ZeroSize(a) == a.width = 0 \/ a.height = 0

\* What of the environment a call can observe: the system's entropy when
\* app2.py seeds with None, the library's verdict when a size is zero.
StartEnv(a) ==
  {e \in Env : /\ (a.prog = "app" \/ a.seed # None) => (e.py = 0 /\ e.np = 0)
               /\ ~ZeroSize(a) => ~e.reject}

SaveEnv(a) == {e \in Env : e.py = 0 /\ e.np = 0 /\ (~ZeroSize(a) => ~e.reject)}

\* The smoothness slider exists in app.py only.
Sliders(a) == IF a.prog = "app" THEN Smoothness ELSE {a.sm}

\* A start that seeds np.random only and leaves `random` as it finds it.
StartStepNumpyOnly(a, m, e) ==
  IF a.prog = "app2"
  THEN LET np == IF a.seed = None THEN e.np ELSE NpSeed(a.seed)
       IN IF ZeroSize(a) /\ e.reject
          THEN Machine(m.py, np, "error", "ValueError", 0, <<>>, <<>>, 0)
          ELSE Machine(m.py, np, "palette", "", 0, <<>>, <<>>, 0)
  ELSE Machine(m.py, IF a.seed = None THEN m.np ELSE NpSeed(a.seed),
               "palette", "", 0, <<>>, <<>>, 0)

\* app2.py 88-98: seed both generators, create the figure.  app.py 60-61:
\* seed np.random when a seed is given.
StartStep(a, m, e) ==
  IF a.prog = "app2"
  THEN LET py == IF a.seed = None THEN e.py ELSE PySeed(a.seed)
           np == IF a.seed = None THEN e.np ELSE NpSeed(a.seed)
       IN IF ZeroSize(a) /\ e.reject
          THEN Machine(py, np, "error", "ValueError", 0, <<>>, <<>>, 0)
          ELSE Machine(py, np, "palette", "", 0, <<>>, <<>>, 0)
  ELSE Machine(m.py, IF a.seed = None THEN m.np ELSE NpSeed(a.seed),
               "palette", "", 0, <<>>, <<>>, 0)

\* app2.py 100: palette = random_palette(style, 40).
\* app.py 63-66: colors = random_palette(n_blobs, seed=seed), which reseeds.
PaletteStep(a, m) ==
  IF a.prog = "app2"
  THEN LET k == PaletteDraws(a.style, PaletteSize)
       IN [m EXCEPT !.palette = RandomPalette2(a.style, PaletteSize, m.py),
                    !.py = RandN(m.py, k), !.nd = m.nd + k, !.pc = "layers"]
  ELSE LET g == IF a.seed = None THEN m.np ELSE NpSeed(a.seed)
           k == PaletteDraws1(a.n)
       IN [m EXCEPT !.palette = RandomPalette1(a.n, g),
                    !.np = RandN(g, k), !.nd = m.nd + k, !.pc = "layers"]

\* app2.py 107-128: one pass of the layer loop.
LayerStep2(a, m) ==
  LET cx == Uniform(50, 950, RandN(m.py, 1))
      cy == Uniform(50, 950, RandN(m.py, 2))
      rr == Uniform(20, 220, RandN(m.py, 3))
      angle == Uniform(-a.rot, a.rot, RandN(m.py, 4))
      dx == (a.so * CosMilli(a.light)) \div One
      dy == -((a.so * SinMilli(a.light)) \div One)
      s == Shape(RandN(m.py, 4), m.np, rr, a.wobble, a.shape)
      l == Shape(s.py, s.np, rr, a.wobble, a.shape)
      base == Choice(m.palette, Rand(l.py))
      f == BrightnessFactor(a.bs, m.i, a.n)
      alpha == Uniform(a.amin, a.amax, RandN(l.py, 2))
      shadow == Op("shadow", m.i, a.shape, <<cx + dx, cy + dy>>, rr, s.sides,
                   s.radii, angle, RgbColor(0, 0, 0), 350, 0)
      lit == Op("fill", m.i, a.shape, <<cx, cy>>, rr, l.sides, l.radii,
                angle, RgbColor(Shade(base, f)[1], Shade(base, f)[2],
                                Shade(base, f)[3]), alpha, f)
  IN [m EXCEPT !.py = RandN(l.py, 2), !.np = l.np,
               !.nd = m.nd + 6 + s.nd + l.nd,
               !.ops = m.ops \o LayerOps(shadow, lit), !.i = m.i + 1]

\* app.py 70-78: one pass of the blob loop; seed+i raises TypeError without
\* a seed, after the two placement draws.
LayerStep1(a, m) ==
  LET u1 == RandN(m.np, 1)
      u2 == RandN(m.np, 2)
      r == (a.radius * (One + 150 * m.i)) \div One
      wob == (a.wobble * (One + 100 * m.i)) \div One
      dist == (Uniform(200, a.spread, u2) * ((One * m.i) \div a.n + 300))
                \div One
      c == m.palette[m.i + 1]
  IN IF a.seed = None
     THEN Raise([m EXCEPT !.np = u2, !.nd = m.nd + 2], "TypeError")
     ELSE [m EXCEPT !.np = RandN(NpSeed(a.seed + m.i), a.sm),
                    !.nd = m.nd + 2 + a.sm,
                    !.ops = Append(m.ops,
                       Op("fill", m.i, "blob", <<u1, dist>>, r, 0,
                          BlobNoise(a.seed + m.i, a.sm, wob), 0,
                          RgbColor(c[1], c[2], c[3]), 700, 0)),
                    !.i = m.i + 1]

LayerStep(a, m) ==
  IF a.prog = "app2" THEN LayerStep2(a, m) ELSE LayerStep1(a, m)

\* Whether the layer loop has another pass to make.
LoopTest(a, m) ==
  IF a.prog = "app2" THEN MoreLayers(m.i, a.n) ELSE HasColor(m.i, m.palette)

\* app2.py 131-137: the title colour, replaced by white or black when it is
\* within 0.5 of the background's luminance.
TitleColor2(bg, title) ==
  LET t == ParseHex(title)
      lb == Luminance2(bg)
  IN IF 2 * Abs(lb - Luminance2(t.rgb)) < One * Byte
     THEN IF 2 * lb < One * Byte THEN White ELSE Black
     ELSE title

\* app.py 81-84.
TextColor1(bg) ==
  IF IsStr(bg)
  THEN IF bg.kind = "name" /\ Lower(bg.name) = "black"
       THEN NameColor("white") ELSE NameColor("black")
  ELSE IF Luminance1(bg.rgb) < 5 * One * One
       THEN NameColor("white") ELSE NameColor("black")

\* app2.py 145-150 and app.py 87-103: the title block.
TitleTexts2(c) ==
  << TextOp("title", 10, 970, 38, c, 950), TextOp("subtitle", 10, 930, 16, c, 900),
     TextOp("info", 10, 895, 13, c, 850) >>

TitleTexts1(c) ==
  << TextOp("title", 30, 960, 24, c, One), TextOp("subtitle", 30, 920, 18, c, One),
     TextOp("info", 970, 30, 9, c, 800) >>

\* The colour names matplotlib knows, among those in use.
ColorNames == {"black", "Black", "white", "navy"}

\* app2.py 130-159 and app.py 80-106: text colour, title block, savefig and
\* return; plt.text rejects a colour that is no colour with ValueError.
TitleStep(a, m, e) ==
  IF a.prog = "app2"
  THEN LET b == ParseHex(a.bg)
           c == TitleColor2(b.rgb, a.title)
       IN IF ~b.ok THEN Raise(m, b.err)
          ELSE IF c.kind = "name" /\ c.name \notin ColorNames
          THEN Raise(m, "ValueError")
          ELSE IF ZeroSize(a) /\ e.reject
          THEN Raise([m EXCEPT !.ops = m.ops \o TitleTexts2(c)], "ValueError")
          ELSE [m EXCEPT !.ops = m.ops \o TitleTexts2(c),
                         !.pc = "done"]
  ELSE [m EXCEPT !.ops = m.ops \o TitleTexts1(TextColor1(a.bg)), !.pc = "done"]

\* ------------------------------------------------------------ the system
Sessions == {"s1", "s2"}

VARIABLES
  pyrand,   \* the state of Python's process-wide `random` generator
  nprand,   \* the state of numpy's process-wide np.random generator
  live,     \* the sessions (script threads) that render
  args,     \* args[t]: the parameter bundle of session t's render calls
  loc,      \* loc[t]: session t's render in progress, or its last outcome
  solo,     \* solo[t]: the same render on generators of its own
  ref       \* ref[t]: an earlier finished poster of session t, if kept

vars == <<pyrand, nprand, live, args, loc, solo, ref>>

Local(m) == [pc |-> m.pc, err |-> m.err, i |-> m.i, palette |-> m.palette,
             ops |-> m.ops, nd |-> m.nd]

\* Session t's render as it runs: on the process-wide generators.
Mach(t) == Machine(pyrand, nprand, loc[t].pc, loc[t].err, loc[t].i,
                   loc[t].palette, loc[t].ops, loc[t].nd)

Idle == [pc |-> "idle", err |-> "", i |-> 0, palette |-> <<>>, ops |-> <<>>,
         nd |-> 0]

Commit(t, m) ==
  /\ pyrand' = m.py
  /\ nprand' = m.np
  /\ loc' = [loc EXCEPT ![t] = Local(m)]

InitWith(ts, bundles) ==
  /\ live = ts
  /\ pyrand \in Entropy
  /\ nprand \in Entropy
  /\ \E f \in [ts -> bundles] :
       /\ \A t, u \in ts : f[t].prog = f[u].prog
       /\ args = [t \in Sessions |->
                     IF t \in ts THEN f[t] ELSE f[CHOOSE u \in ts : TRUE]]
  /\ loc = [t \in Sessions |-> Idle]
  /\ solo = [t \in Sessions |->
               Machine(pyrand, nprand, "idle", "", 0, <<>>, <<>>, 0)]
  /\ ref = [t \in Sessions |-> <<>>]

\* One session renders, call after call.
Init == InitWith({"s1"}, Bundles)

\* Two sessions render at once: seeded one-layer posters, the other controls
\* at the sidebar's defaults.
ConcBundles ==
  {Bundle2(seed, "pastel", shape, 1, White, Black, <<600, 900>>, 300,
           <<1200, 1700>>) :
     seed \in 1..MaxSeed, shape \in {"polygon", "blob"}}
  \cup {Bundle1(seed, 1, Black) : seed \in 1..MaxSeed}

InitConc == InitWith(Sessions, ConcBundles)

\* The script calls the renderer: with the smoothness slider's value at that
\* time (app.py), keeping or dropping the poster of the call before (posters
\* of seeded calls are the ones worth keeping for a comparison).
Start(t) ==
  /\ t \in live
  /\ loc[t].pc \in {"idle", "done", "error"}
  /\ \E keep \in BOOLEAN, sm \in Sliders(args[t]) :
       LET a == [args[t] EXCEPT !.sm = sm]
       IN /\ keep => (loc[t].pc = "done" /\ live = {t} /\ a.seed # None)
          /\ args' = [args EXCEPT ![t] = a]
          /\ \E e \in StartEnv(a) :
               /\ Commit(t, StartStep(a, Mach(t), e))
               /\ solo' = [solo EXCEPT ![t] = StartStep(a, @, e)]
          /\ ref' = IF keep
                    THEN [ref EXCEPT ![t] =
                            <<[sm |-> args[t].sm, ops |-> loc[t].ops]>>]
                    ELSE ref
  /\ UNCHANGED live

Palette(t) ==
  /\ loc[t].pc = "palette"
  /\ Commit(t, PaletteStep(args[t], Mach(t)))
  /\ solo' = [solo EXCEPT ![t] = PaletteStep(args[t], @)]
  /\ UNCHANGED <<live, args, ref>>

Layer(t) ==
  /\ loc[t].pc = "layers"
  /\ LoopTest(args[t], Mach(t))
  /\ Commit(t, LayerStep(args[t], Mach(t)))
  /\ solo' = [solo EXCEPT ![t] = LayerStep(args[t], @)]
  /\ UNCHANGED <<live, args, ref>>

Title(t) ==
  /\ loc[t].pc = "layers"
  /\ ~LoopTest(args[t], Mach(t))
  /\ \E e \in SaveEnv(args[t]) :
       /\ Commit(t, TitleStep(args[t], Mach(t), e))
       /\ solo' = [solo EXCEPT ![t] = TitleStep(args[t], @, e)]
  /\ UNCHANGED <<live, args, ref>>

Next == \E t \in Sessions : Start(t) \/ Palette(t) \/ Layer(t) \/ Title(t)

Spec == Init /\ [][Next]_vars
SpecConc == InitConc /\ [][Next]_vars

\* ================================================================ claims
Done(t) == loc[t].pc = "done"
Seeded(t) == args[t].seed # None
Kept(t) == ref[t] # <<>>

\* C1 (determinism): a seeded render that finishes issues exactly the draw
\* operations of every earlier finished render of the same session with the
\* same seed and parameters, whatever was drawn from the generators between.
Deterministic ==
  \A t \in live :
    (Done(t) /\ Seeded(t) /\ Kept(t) /\ ref[t][1].sm = args[t].sm)
      => loc[t].ops = ref[t][1].ops

\* A second seeded render with layers has finished after a kept first one,
\* on generators the first render left in another state than it found them.
DeterministicWitness ==
  \E t \in live :
    /\ Done(t) /\ Seeded(t) /\ Kept(t) /\ ref[t][1].sm = args[t].sm
    /\ args[t].n >= 1
    /\ Len(ref[t][1].ops) > 3
    /\ args[t].prog = "app2" => pyrand # PySeed(args[t].seed)

\* C2 (non-interference): under every interleaving a seeded render obtains
\* the palette and issues the draw operations it obtains on generators of
\* its own.
NonInterference ==
  \A t \in live :
    Seeded(t) => /\ loc[t].palette = solo[t].palette
                 /\ loc[t].ops = solo[t].ops

\* C3 (colour clamp): every channel of every colour random_palette returned
\* lies in [0,1].
PaletteClamped ==
  \A t \in live :
    \A j \in DOMAIN loc[t].palette :
      \A c \in 1..3 : loc[t].palette[j][c] \in 0..One

\* A colour as three bytes, as matplotlib resolves it.
Rgb255(c) ==
  CASE c.kind = "hex" -> c.rgb
    [] c.kind = "rgb" ->
         << (c.rgb[1] * Byte) \div One, (c.rgb[2] * Byte) \div One,
            (c.rgb[3] * Byte) \div One >>
    [] c.kind = "name" /\ Lower(c.name) = "black" -> <<0, 0, 0>>
    [] c.kind = "name" /\ c.name = "white" -> <<Byte, Byte, Byte>>
    [] c.kind = "name" /\ c.name = "navy" -> <<0, 0, 128>>

\* C4 (contrast): the colour the title block is drawn in is light when the
\* background's luminance is below 0.5 and dark otherwise, and the two
\* luminances differ by at least 0.3.
Contrast ==
  \A t \in live :
    Done(t) =>
      \A k \in DOMAIN loc[t].ops :
        loc[t].ops[k].op = "text" =>
          LET lb == Luminance2(Rgb255(args[t].bg))
              lt == Luminance2(Rgb255(loc[t].ops[k].color))
          IN /\ (2 * lb < One * Byte) <=> (2 * lt >= One * Byte)
             /\ 10 * Abs(lt - lb) >= 3 * One * Byte

\* C5 (fail fast): a render_poster call with alpha_min > alpha_max or a zero
\* width or height is in the InvalidParameter error state, with no random
\* draw consumed and no draw operation issued.
OutOfRange(a) == a.amin > a.amax \/ a.width = 0 \/ a.height = 0

FailFast ==
  \A t \in live :
    (args[t].prog = "app2" /\ OutOfRange(args[t]) /\ loc[t].pc # "idle")
      => /\ loc[t].pc = "error"
         /\ loc[t].err = "InvalidParameter"
         /\ loc[t].nd = 0
         /\ loc[t].ops = <<>>

\* C6 (empty poster): with n_layers = 0 (n_blobs = 0) and otherwise valid
\* parameters a render never ends in an error, issues no shadow or fill, and
\* has issued exactly the three title-block texts when it finishes.
ValidArgs(a) ==
  /\ ~OutOfRange(a)
  /\ a.prog = "app2" => (a.bg.kind = "hex" /\ a.title.kind = "hex")

EmptyPoster ==
  \A t \in live :
    (args[t].n = 0 /\ ValidArgs(args[t])) =>
      /\ loc[t].pc # "error"
      /\ \A k \in DOMAIN loc[t].ops : loc[t].ops[k].op = "text"
      /\ Done(t) =>
           /\ Len(loc[t].ops) = 3
           /\ loc[t].ops[1].kind = "title"
           /\ loc[t].ops[2].kind = "subtitle"
           /\ loc[t].ops[3].kind = "info"

EmptyPosterWitness ==
  \E t \in live :
    /\ Done(t) /\ args[t].n = 0 /\ ValidArgs(args[t])
    /\ args[t].prog = "app2"
    /\ Len(loc[t].ops) = 3
    /\ loc[t].nd > 0

\* C7 (shadow matches silhouette): every shadow is followed by its layer's
\* fill with the same kind, radius, side count, per-point radii and rotation,
\* the centre moved by the shadow offset (dx, dy).
ShadowMatches ==
  \A t \in live :
    \A k \in DOMAIN loc[t].ops :
      loc[t].ops[k].op = "shadow" =>
        (k + 1 \in DOMAIN loc[t].ops =>
          LET s == loc[t].ops[k]
              l == loc[t].ops[k + 1]
              a == args[t]
          IN /\ l.op = "fill"
             /\ s.kind = l.kind /\ s.r = l.r /\ s.rot = l.rot
             /\ s.sides = l.sides /\ s.radii = l.radii
             /\ s.center[1] = l.center[1] + (a.so * CosMilli(a.light)) \div One
             /\ s.center[2] = l.center[2] - (a.so * SinMilli(a.light)) \div One)

\* C8 (per-layer isolation): in draw_poster with a fixed seed, the centre of
\* every layer after the first is the same in two renders that differ only
\* in the smoothness sample count, and so is the outline noise they share.
LayerIsolation ==
  \A t \in live :
    (Done(t) /\ args[t].prog = "app" /\ Seeded(t) /\ Kept(t)) =>
      \A k \in 2..args[t].n :
        /\ loc[t].ops[k].center = ref[t][1].ops[k].center
        /\ \A j \in DOMAIN loc[t].ops[k].radii \cap DOMAIN ref[t][1].ops[k].radii :
             loc[t].ops[k].radii[j] = ref[t][1].ops[k].radii[j]

\* C9 (brightness gradient): layer i of n is shaded by the factor
\* 0.75 + brightness_strength * (i / max(1, n-1)), clamped per channel.
BrightnessGradient ==
  \A t \in live :
    args[t].prog = "app2" =>
      \A k \in DOMAIN loc[t].ops :
        loc[t].ops[k].op = "fill" =>
          /\ loc[t].ops[k].factor =
               750 + (args[t].bs * loc[t].ops[k].layer) \div Max(1, args[t].n - 1)
          /\ \A c \in 1..3 : loc[t].ops[k].color.rgb[c] \in 0..One

\* C10 (compositing order): the operations render_poster has issued are
\* always a prefix of shadow(0), fill(0), ..., shadow(n-1), fill(n-1), title,
\* subtitle, info, and all of it when the render finishes.
CompositingOrder ==
  \A t \in live :
    args[t].prog = "app2" =>
      LET ops == loc[t].ops
          n == args[t].n
      IN /\ Len(ops) <= 2 * n + 3
         /\ Done(t) => Len(ops) = 2 * n + 3
         /\ \A k \in DOMAIN ops :
              IF k <= 2 * n
              THEN /\ ops[k].op = (IF k % 2 = 1 THEN "shadow" ELSE "fill")
                   /\ ops[k].layer = (k - 1) \div 2
              ELSE /\ ops[k].op = "text"
                   /\ ops[k].kind = <<"title", "subtitle", "info">>[k - 2 * n]

CompositingOrderWitness ==
  \E t \in live :
    /\ Done(t) /\ args[t].prog = "app2" /\ args[t].n >= 2
    /\ Len(loc[t].ops) = 2 * args[t].n + 3

====
